---- MODULE Spec2Model ----
(***************************************************************************)
(* A model of resresizer/resizer.py: the command line dispatch             *)
(* (process_arguments), the three resizers (BaseResizer, AndroidResResize, *)
(* IOSResResize) and the file system they read and write.                  *)
(*                                                                         *)
(* Text (file names, paths, scale labels) is a sequence of one-character   *)
(* strings, so that os.path.join, os.path.split, os.path.splitext,         *)
(* str.replace, the "in" test and slicing are computed as Python computes  *)
(* them.  An image is its size [w, h]; Corrupt stands for bytes that       *)
(* Image.open cannot decode.                                               *)
(***************************************************************************)
EXTENDS Integers, Sequences, FiniteSets, TLC

VARIABLES
    py,        \* major version of the interpreter "python" resolves to (2 or 3)
    args,      \* the argparse namespace handed to process_arguments
    original,  \* file system: the files as they were when the script started
    dirs,      \* file system: the directories that exist (resolved paths)
    files,     \* file system: resolved path -> image ([w, h] or Corrupt)
    nomake,    \* file system: directories os.makedirs is refused for
    pc,        \* where the script is: "start", a loop, "done" or "raised"
    resizer,   \* the resizer object: class and instance attributes
    listing,   \* names os.listdir returned that the loop has not visited yet
    frame,     \* the running process_file / process_app_icon call
    opened,    \* every path Image.open was called on
    saved,     \* every image.save call, in order
    stdout     \* every line printed, in order

vars == <<py, args, original, dirs, files, nomake, pc, resizer, listing, frame,
          opened, saved, stdout>>

-----------------------------------------------------------------------------
(* Text                                                                    *)

Max(S) == CHOOSE x \in S : \A y \in S : y <= x

(* s.rfind(c): the last index of c, counted from 1; 0 when absent *)
rfind(s, c) ==
    LET at == {i \in 1..Len(s) : s[i] = c}
    IN IF at = {} THEN 0 ELSE Max(at)

(* sub in s *)
contains(s, sub) ==
    \E i \in 1..(Len(s) - Len(sub) + 1) : SubSeq(s, i, i + Len(sub) - 1) = sub

(* s[-n:] *)
lastN(s, n) == SubSeq(s, IF Len(s) > n THEN Len(s) - n + 1 ELSE 1, Len(s))

(* s.replace(old, new): every non-overlapping occurrence, left to right *)
RECURSIVE replace(_, _, _)
replace(s, old, new) ==
    IF Len(s) < Len(old) THEN s
    ELSE IF SubSeq(s, 1, Len(old)) = old
         THEN new \o replace(SubSeq(s, Len(old) + 1, Len(s)), old, new)
         ELSE <<Head(s)>> \o replace(Tail(s), old, new)

RECURSIVE rstripSlash(_)
rstripSlash(s) ==
    IF s # <<>> /\ s[Len(s)] = "/" THEN rstripSlash(SubSeq(s, 1, Len(s) - 1)) ELSE s

(* os.path.join(a, b) on POSIX *)
join(a, b) ==
    IF b # <<>> /\ b[1] = "/" THEN b
    ELSE IF a = <<>> \/ a[Len(a)] = "/" THEN a \o b
    ELSE a \o <<"/">> \o b

(* os.path.split(p) on POSIX: <<head, tail>> *)
split(p) ==
    LET i    == rfind(p, "/")
        head == SubSeq(p, 1, i)
        tail == SubSeq(p, i + 1, Len(p))
    IN <<IF rstripSlash(head) # <<>> THEN rstripSlash(head) ELSE head, tail>>

(* os.path.splitext(p) on POSIX: <<root, ext>>; leading dots of the last *)
(* component do not start an extension                                   *)
splitext(p) ==
    LET sep == rfind(p, "/")
        dot == rfind(p, ".")
    IN IF dot > sep /\ \E i \in (sep + 1)..(dot - 1) : p[i] # "."
       THEN <<SubSeq(p, 1, dot - 1), SubSeq(p, dot, Len(p))>>
       ELSE <<p, <<>>>>

-----------------------------------------------------------------------------
(* File system                                                             *)

(* the components of a path, "" and "." dropped *)
RECURSIVE components(_)
components(p) ==
    IF p = <<>> THEN <<>>
    ELSE LET i    == CHOOSE k \in 1..(Len(p) + 1) :
                       /\ k = Len(p) + 1 \/ p[k] = "/"
                       /\ \A j \in 1..(k - 1) : p[j] # "/"
             c    == SubSeq(p, 1, i - 1)
             rest == components(SubSeq(p, i + 1, Len(p)))
         IN IF c = <<>> \/ c = <<".">> THEN rest ELSE <<c>> \o rest

(* what the kernel resolves a path to, from the working directory: the   *)
(* components with ".." applied; an absolute path starts with <<"/">>    *)
RECURSIVE walk(_, _)
walk(at, cs) ==
    IF cs = <<>> THEN at
    ELSE IF Head(cs) = <<".", ".">>
         THEN IF at # <<>> /\ at[Len(at)] = <<"/">> THEN walk(at, Tail(cs))
              ELSE IF at # <<>> /\ at[Len(at)] # <<".", ".">>
                   THEN walk(SubSeq(at, 1, Len(at) - 1), Tail(cs))
                   ELSE walk(Append(at, Head(cs)), Tail(cs))
         ELSE walk(Append(at, Head(cs)), Tail(cs))

Resolve(p) ==
    walk(IF p # <<>> /\ p[1] = "/" THEN <<<<"/">>>> ELSE <<>>, components(p))

Parent(r) == IF r = <<>> THEN <<<<".", ".">>>> ELSE SubSeq(r, 1, Len(r) - 1)

Ancestors(r) == {SubSeq(r, 1, n) : n \in 0..Len(r)}

Corrupt == [w |-> 0, h |-> 0]

(* os.path.exists *)
exists(p) == Resolve(p) \in dirs \/ Resolve(p) \in DOMAIN files

(* Image.open succeeds *)
Decodes(p) == Resolve(p) \in DOMAIN files /\ files[Resolve(p)] # Corrupt

(* image.save succeeds: the directory is there and the path is no directory *)
Writable(p) == Parent(Resolve(p)) \in dirs /\ Resolve(p) \notin dirs

(* os.makedirs succeeds *)
Makeable(d) == \A a \in Ancestors(Resolve(d)) : a \in dirs \/ a \notin nomake

-----------------------------------------------------------------------------
(* Class attributes                                                        *)

VERSION == <<"1", ".", "0", ".", "0">>

ACCEPTED_EXTENSIONS == {<<".", "p", "n", "g">>, <<".", "j", "p", "g">>}

(* mutant: no suffix is refused, so a folder batch selects NinePatch files *)
UNACCEPTED_EXTENSIONS_none == {}

UNACCEPTED_EXTENSIONS == {<<".", "9", ".", "p", "n", "g">>}

(* A scale factor is the float the source writes.  The Android factors are *)
(* binary fractions, exact as floats: num/den.  The iOS factors are the    *)
(* decimals 0.66666666666666 and 0.33333333333333, which lie below 2/3 and *)
(* 1/3 by less than 10^-14: num/den with under = TRUE.  A product d*factor *)
(* is then d*num/den less an amount far below 1/den, for every d a 32-bit  *)
(* integer holds.                                                          *)
(* mutant: float(1.5) / 4 written with the integer 1, so hdpi scales as mdpi *)
AndroidSCALES_hdpi_truncated ==
    [xxhdpi |-> [num |-> 3, den |-> 4, under |-> FALSE],
     xhdpi  |-> [num |-> 2, den |-> 4, under |-> FALSE],
     hdpi   |-> [num |-> 1, den |-> 4, under |-> FALSE],
     mdpi   |-> [num |-> 1, den |-> 4, under |-> FALSE]]

AndroidSCALES ==
    [xxhdpi |-> [num |-> 3, den |-> 4, under |-> FALSE],
     xhdpi  |-> [num |-> 2, den |-> 4, under |-> FALSE],
     hdpi   |-> [num |-> 3, den |-> 8, under |-> FALSE],
     mdpi   |-> [num |-> 1, den |-> 4, under |-> FALSE]]

IOSSCALES ==
    ("@2x" :> [num |-> 2, den |-> 3, under |-> TRUE]) @@
    ("@1x" :> [num |-> 1, den |-> 3, under |-> TRUE])

APP_ICON_SIZES == <<29, 40, 58, 76, 80, 87, 120, 152, 167, 180>>

SCALES(cls) ==
    CASE cls = "Android" -> AndroidSCALES
      [] cls = "IOS"     -> IOSSCALES
      [] OTHER           -> <<>>

(* the characters of a scale label *)
Text(label) ==
    CASE label = "xxhdpi" -> <<"x", "x", "h", "d", "p", "i">>
      [] label = "xhdpi"  -> <<"x", "h", "d", "p", "i">>
      [] label = "hdpi"   -> <<"h", "d", "p", "i">>
      [] label = "mdpi"   -> <<"m", "d", "p", "i">>
      [] label = "@2x"    -> <<"@", "2", "x">>
      [] label = "@1x"    -> <<"@", "1", "x">>

(* "%d" % n, n >= 0 *)
RECURSIVE Digits(_)
Digits(n) ==
    LET d == <<"0", "1", "2", "3", "4", "5", "6", "7", "8", "9">>[(n % 10) + 1]
    IN IF n < 10 THEN <<d>> ELSE Digits(n \div 10) \o <<d>>

(* the orders dict.items() can yield the entries of a table in *)
Orders(table) ==
    LET K == DOMAIN table
    IN {o \in [1..Cardinality(K) -> K] : \A i, j \in DOMAIN o : i # j => o[i] # o[j]}

-----------------------------------------------------------------------------
(* BaseResizer.scale_image: the target size                                *)

(* round(d * scale) as the interpreter computes it: Python 2 rounds a half *)
(* away from zero, Python 3 rounds a half to the even neighbour            *)
round(d, scale, version) ==
    LET lo == (d * scale.num) \div scale.den
        r  == (d * scale.num) % scale.den
    IN IF 2 * r < scale.den THEN lo
       ELSE IF 2 * r > scale.den THEN lo + 1
       ELSE IF scale.under THEN lo
       ELSE IF version = 2 THEN lo + 1
       ELSE IF lo % 2 = 0 THEN lo ELSE lo + 1

(* new_width / new_height of scale_image *)
new_dimension(d, scale, version) ==
    IF round(d, scale, version) < 1 THEN 1 ELSE round(d, scale, version)

(* mutant: new_height computed from image_size[0], the width *)
new_size_from_width(size, scale, version) ==
    [w |-> new_dimension(size.w, scale, version),
     h |-> new_dimension(size.w, scale, version)]

new_size(size, scale, version) ==
    [w |-> new_dimension(size.w, scale, version),
     h |-> new_dimension(size.h, scale, version)]

can_process_file(file_extension) == file_extension \in ACCEPTED_EXTENSIONS

should_process_file(base_name, file_extension, app_icon) ==
    /\ can_process_file(file_extension)
    /\ contains(base_name, <<"@", "3", "x">>) \/ app_icon = TRUE

-----------------------------------------------------------------------------
(* Values                                                                  *)

(* an absent argument (argparse's default None): no text and no list of   *)
(* labels equals it                                                       *)
None == <<"None">>

NoFrame == [dir |-> <<>>, name |-> <<>>, todo |-> <<>>]

NoResizer ==
    [cls |-> "None", SILENCE |-> FALSE, EXCLUDE_SCALE |-> <<>>,
     app_icon |-> FALSE, order |-> <<>>]

(* int(text): the number a run of decimal digits writes; -1 stands for the *)
(* ValueError any other text raises                                        *)
RECURSIVE int(_)
int(t) ==
    LET digit(c) == CASE c = "0" -> 0 [] c = "1" -> 1 [] c = "2" -> 2
                      [] c = "3" -> 3 [] c = "4" -> 4 [] c = "5" -> 5
                      [] c = "6" -> 6 [] c = "7" -> 7 [] c = "8" -> 8
                      [] c = "9" -> 9 [] OTHER -> -1
    IN IF t = <<>> THEN -1
       ELSE IF Len(t) = 1 THEN digit(t[1])
       ELSE IF int(SubSeq(t, 1, Len(t) - 1)) < 0 \/ digit(t[Len(t)]) < 0 THEN -1
       ELSE 10 * int(SubSeq(t, 1, Len(t) - 1)) + digit(t[Len(t)])

(* text.split('x') *)
RECURSIVE splitx(_)
splitx(t) ==
    LET i == IF \E k \in 1..Len(t) : t[k] = "x"
             THEN CHOOSE k \in 1..Len(t) : t[k] = "x" /\ \A j \in 1..(k - 1) : t[j] # "x"
             ELSE 0
    IN IF i = 0 THEN <<t>>
       ELSE <<SubSeq(t, 1, i - 1)>> \o splitx(SubSeq(t, i + 1, Len(t)))

(* BaseResizer.log: a line, unless the resizer is silenced *)
log(out, r, text, arg) ==
    IF r.SILENCE = FALSE THEN Append(out, [text |-> text, arg |-> arg]) ELSE out

(* mutant: the failure is reported through self.log, which --silence mutes *)
print_unless_silenced(out, text, arg) == log(out, resizer, text, arg)

(* print *)
print(out, text, arg) == Append(out, [text |-> text, arg |-> arg])

(* the lists os.listdir(d) can return: the entries of d, in any order *)
listdir(d) ==
    LET here  == {e \in DOMAIN files \cup dirs : e # <<>> /\ Parent(e) = Resolve(d)}
        names == {e[Len(e)] : e \in here}
    IN {o \in [1..Cardinality(names) -> names] :
           \A i, j \in DOMAIN o : i # j => o[i] # o[j]}

(* the image a path holds after image.save *)
Written(path, image) == (Resolve(path) :> image) @@ files

SaveRecord(src, label, path, image) ==
    [src |-> src, label |-> label, path |-> path, w |-> image.w, h |-> image.h]

-----------------------------------------------------------------------------
(* The call of resizer.process_file(input_directory, file_name) or of      *)
(* process_app_icon: where the script is once the call has tested the      *)
(* file, with the loop it is about to run                                  *)

process_file(r, input_directory, file_name) ==
    LET file_path == join(input_directory, file_name)
        base_name == splitext(file_path)[1]
        file_extension == splitext(file_path)[2]
        skip == [pc |-> "folder", frame |-> [NoFrame EXCEPT !.dir = input_directory]]
        run(at) == [pc |-> at,
                    frame |-> [dir |-> input_directory, name |-> file_name,
                               todo |-> r.order]]
    IN CASE r.cls = "Android" ->
              IF can_process_file(file_extension) /\ r.order # <<>>
              THEN run("android") ELSE skip
         [] r.cls = "IOS" ->
              IF should_process_file(base_name, file_extension, r.app_icon)
              THEN run("ios") ELSE skip
         [] OTHER -> skip

process_app_icon(r, input_directory, file_name) ==
    LET file_path == join(input_directory, file_name)
        base_name == splitext(file_path)[1]
        file_extension == splitext(file_path)[2]
    IN IF should_process_file(base_name, file_extension, r.app_icon)
       THEN [pc |-> "icon",
             frame |-> [dir |-> input_directory, name |-> file_name,
                        todo |-> APP_ICON_SIZES]]
       ELSE [pc |-> "folder", frame |-> [NoFrame EXCEPT !.dir = input_directory]]

-----------------------------------------------------------------------------
(* process_arguments, up to the first file                                 *)

Unchanged_fs == UNCHANGED <<py, args, original, dirs, files, nomake>>

(* an exception nothing catches: the traceback ends the script *)
Raise(out) ==
    /\ pc' = "raised"
    /\ stdout' = out
    /\ frame' = frame

(* process_png_conversion, to the first file of its loop *)
process_png_conversion ==
    LET r   == [NoResizer EXCEPT !.cls = "Base", !.SILENCE = args.silence]
        out == log(stdout, r, "Converting file(s) to PNG.", <<>>)
    IN /\ resizer' = r
       /\ IF args.file_path # None
          THEN /\ listing' = <<split(args.file_path)[2]>>
               /\ frame' = [NoFrame EXCEPT !.dir = split(args.file_path)[1]]
               /\ stdout' = out
               /\ pc' = "png"
          ELSE IF args.folder_path # None
          THEN LET out2 == log(out, r, "Processing folder: ", args.folder_path)
               IN IF Resolve(args.folder_path) \in dirs
                  THEN /\ \E l \in listdir(args.folder_path) : listing' = l
                       /\ frame' = [NoFrame EXCEPT !.dir = args.folder_path]
                       /\ stdout' = out2
                       /\ pc' = "png"
                  ELSE listing' = <<>> /\ Raise(out2)
          ELSE /\ listing' = <<>>
               /\ frame' = NoFrame
               /\ stdout' = log(print(out, "Must specify --file or --folder to convert to PNG.", <<>>),
                                r, "Done.", <<>>)
               /\ pc' = "done"

(* process_resizing, to the first file of its loop *)
process_resizing ==
    LET r    == [NoResizer EXCEPT !.cls = "Base", !.SILENCE = args.silence]
        out  == log(stdout, r, "Resizing file(s) to ", args.resize_dimension)
        wh   == splitx(args.resize_dimension)
    IN /\ resizer' = r
       /\ IF Len(wh) # 2
          THEN listing' = <<>> /\ Raise(out)
          ELSE IF args.file_path # None
          THEN /\ listing' = <<split(args.file_path)[2]>>
               /\ frame' = [dir |-> split(args.file_path)[1], name |-> <<>>, todo |-> wh]
               /\ stdout' = out
               /\ pc' = "resize"
          ELSE IF args.folder_path # None
          THEN LET out2 == log(out, r, "Processing folder: ", args.folder_path)
               IN IF Resolve(args.folder_path) \in dirs
                  THEN /\ \E l \in listdir(args.folder_path) : listing' = l
                       /\ frame' = [dir |-> args.folder_path, name |-> <<>>, todo |-> wh]
                       /\ stdout' = out2
                       /\ pc' = "resize"
                  ELSE listing' = <<>> /\ Raise(out2)
          ELSE /\ listing' = <<>>
               /\ frame' = NoFrame
               /\ stdout' = log(print(out, "Must specify --file or --folder to resize image.", <<>>),
                                r, "Done.", <<>>)
               /\ pc' = "done"

(* the platform part of process_arguments, to the first file *)
process_platform ==
    LET cls == IF args.platform_ios THEN "IOS"
               ELSE IF args.platform_android THEN "Android" ELSE "None"
    IN IF cls = "None"
       THEN /\ resizer' = resizer
            /\ listing' = <<>>
            /\ frame' = NoFrame
            /\ stdout' = print(stdout, "Must specify a platform to perform actions with. -i / -a", <<>>)
            /\ pc' = "done"
       ELSE \E order \in Orders(SCALES(cls)) :
            LET r == [cls |-> cls, SILENCE |-> args.silence,
                      EXCLUDE_SCALE |-> args.scale, app_icon |-> FALSE,
                      order |-> order]
            IN IF args.folder_path # None
               THEN LET out == log(stdout, r, "Processing folder: ", args.folder_path)
                    IN /\ resizer' = r
                       /\ IF Resolve(args.folder_path) \in dirs
                          THEN /\ \E l \in listdir(args.folder_path) : listing' = l
                               /\ frame' = [NoFrame EXCEPT !.dir = args.folder_path]
                               /\ stdout' = out
                               /\ pc' = "folder"
                          ELSE listing' = <<>> /\ Raise(out)
               ELSE IF args.file_path # None
               THEN LET input_directory == split(args.file_path)[1]
                        file_path == split(args.file_path)[2]
                    IN /\ listing' = <<>>
                       /\ IF args.app_icon
                          THEN IF cls # "IOS"
                               THEN resizer' = r /\ Raise(stdout)
                               ELSE LET ri   == [r EXCEPT !.app_icon = args.app_icon]
                                        call == process_app_icon(ri, input_directory, file_path)
                                    IN /\ resizer' = ri
                                       /\ stdout' = log(stdout, ri, "process_app_icon",
                                                        join(input_directory, file_path))
                                       /\ pc' = call.pc
                                       /\ frame' = call.frame
                          ELSE LET call == process_file(r, input_directory, file_path)
                               IN /\ resizer' = r
                                  /\ stdout' = stdout
                                  /\ pc' = call.pc
                                  /\ frame' = call.frame
               ELSE /\ resizer' = r
                    /\ listing' = <<>>
                    /\ frame' = NoFrame
                    /\ stdout' = print(stdout, "Must specify --folder or --file to process.", <<>>)
                    /\ pc' = "done"

(* mutant: the resize dimension is looked at before the conversion flag *)
ProcessArguments_resize_first ==
    /\ pc = "start"
    /\ IF args.show_version
       THEN /\ stdout' = print(stdout, "VERSION", VERSION)
            /\ pc' = "done"
            /\ UNCHANGED <<resizer, listing, frame>>
       ELSE IF args.resize_dimension # None THEN process_resizing
       ELSE IF args.png_convert THEN process_png_conversion
       ELSE process_platform
    /\ UNCHANGED <<opened, saved>>
    /\ Unchanged_fs

ProcessArguments ==
    /\ pc = "start"
    /\ IF args.show_version
       THEN /\ stdout' = print(stdout, "VERSION", VERSION)
            /\ pc' = "done"
            /\ UNCHANGED <<resizer, listing, frame>>
       ELSE IF args.png_convert THEN process_png_conversion
       ELSE IF args.resize_dimension # None THEN process_resizing
       ELSE process_platform
    /\ UNCHANGED <<opened, saved>>
    /\ Unchanged_fs

-----------------------------------------------------------------------------
(* The loops                                                               *)

(* one iteration of BaseResizer.resize_all_in_folder *)
FolderNext ==
    /\ pc = "folder"
    /\ listing # <<>>
    /\ listing' = Tail(listing)
    /\ IF lastN(Head(listing), 6) \notin UNACCEPTED_EXTENSIONS
       THEN LET call == process_file(resizer, frame.dir, Head(listing))
            IN pc' = call.pc /\ frame' = call.frame
       ELSE UNCHANGED <<pc, frame>>
    /\ UNCHANGED <<resizer, opened, saved, stdout>>
    /\ Unchanged_fs

(* one iteration of the loop of AndroidResResize.process_file *)
AndroidScale ==
    /\ pc = "android"
    /\ frame.todo # <<>>
    /\ LET scale_name  == Head(frame.todo)
           scale_value == SCALES(resizer.cls)[scale_name]
           file_path   == join(frame.dir, frame.name)
           scale_dir   == <<".", ".", "/", "d", "r", "a", "w", "a", "b", "l", "e", "-">>
                              \o Text(scale_name) \o <<"/">>
           output_directory == join(frame.dir, scale_dir)
           output_file_path == join(output_directory, frame.name)
           return      == [frame EXCEPT !.name = <<>>, !.todo = <<>>]
           rest        == Tail(frame.todo)
       IN /\ opened' = opened \cup {file_path}
          /\ IF ~Decodes(file_path)
             THEN Raise(stdout) /\ UNCHANGED <<dirs, files, saved>>
             ELSE LET new_image == new_size(files[Resolve(file_path)], scale_value, py)
                      out  == log(stdout, resizer, "Resizing file: ", file_path)
                      make == ~exists(output_directory)
                      out2 == IF make
                              THEN log(out, resizer, "Creating output directory: ", output_directory)
                              ELSE out
                      made == IF make
                              THEN dirs \cup Ancestors(Resolve(output_directory))
                              ELSE dirs
                  IN IF make /\ ~Makeable(output_directory)
                     THEN /\ stdout' = print(out2, "Could not create output directory: ",
                                             output_directory)
                          /\ frame' = return
                          /\ pc' = "folder"
                          /\ UNCHANGED <<dirs, files, saved>>
                     ELSE /\ dirs' = made
                          /\ IF Parent(Resolve(output_file_path)) \in made
                                /\ Resolve(output_file_path) \notin made
                             THEN /\ files' = Written(output_file_path, new_image)
                                  /\ saved' = Append(saved, SaveRecord(file_path, scale_name,
                                                                       output_file_path, new_image))
                                  /\ stdout' = out2
                                  /\ frame' = IF rest = <<>> THEN return
                                              ELSE [frame EXCEPT !.todo = rest]
                                  /\ pc' = IF rest = <<>> THEN "folder" ELSE "android"
                             ELSE Raise(out2) /\ UNCHANGED <<files, saved>>
    /\ UNCHANGED <<resizer, listing>>
    /\ UNCHANGED <<py, args, original, nomake>>

(* one iteration of the loop of IOSResResize.process_file *)
IOSScale ==
    /\ pc = "ios"
    /\ frame.todo # <<>>
    /\ LET scale_name  == Head(frame.todo)
           scale_value == SCALES(resizer.cls)[scale_name]
           file_path   == join(frame.dir, frame.name)
           base_name   == splitext(file_path)[1]
           file_extension == splitext(file_path)[2]
           stripped_base_name == replace(base_name, <<"@", "3", "x">>, <<>>)
           new_file_path == join(frame.dir,
                                 stripped_base_name \o Text(scale_name) \o file_extension)
           return      == [frame EXCEPT !.name = <<>>, !.todo = <<>>]
           rest        == Tail(frame.todo)
       IN /\ opened' = opened \cup {file_path}
          /\ IF ~Decodes(file_path)
             THEN Raise(stdout) /\ UNCHANGED <<files, saved>>
             ELSE LET new_image == new_size(files[Resolve(file_path)], scale_value, py)
                      out == log(stdout, resizer, "Resizing file: ", file_path)
                  IN IF Writable(new_file_path)
                     THEN /\ files' = Written(new_file_path, new_image)
                          /\ saved' = Append(saved, SaveRecord(file_path, scale_name,
                                                               new_file_path, new_image))
                          /\ stdout' = out
                          /\ frame' = IF rest = <<>> THEN return
                                      ELSE [frame EXCEPT !.todo = rest]
                          /\ pc' = IF rest = <<>> THEN "folder" ELSE "ios"
                     ELSE Raise(out) /\ UNCHANGED <<files, saved>>
    /\ UNCHANGED <<resizer, listing>>
    /\ UNCHANGED <<py, args, original, dirs, nomake>>

(* one iteration of the loop of IOSResResize.process_app_icon *)
AppIcon ==
    /\ pc = "icon"
    /\ frame.todo # <<>>
    /\ LET img_size    == Head(frame.todo)
           file_path   == join(frame.dir, frame.name)
           file_extension == splitext(file_path)[2]
           base_file_name == splitext(frame.name)[1]
           new_file_name == base_file_name \o <<"-">> \o Digits(img_size) \o <<"x">>
                                \o Digits(img_size) \o file_extension
           new_file_path == join(frame.dir, new_file_name)
           image       == [w |-> img_size, h |-> img_size]
           return      == [frame EXCEPT !.name = <<>>, !.todo = <<>>]
           rest        == Tail(frame.todo)
       IN /\ opened' = opened \cup {file_path}
          /\ IF ~Decodes(file_path)
             THEN Raise(log(stdout, resizer, "Resizing file: ", file_path))
                  /\ UNCHANGED <<files, saved>>
             ELSE LET out == log(stdout, resizer, "Resizing file: ", file_path)
                  IN IF Writable(new_file_path)
                     THEN /\ files' = Written(new_file_path, image)
                          /\ saved' = Append(saved, SaveRecord(file_path, "icon",
                                                               new_file_path, image))
                          /\ stdout' = out
                          /\ frame' = IF rest = <<>> THEN return
                                      ELSE [frame EXCEPT !.todo = rest]
                          /\ pc' = IF rest = <<>> THEN "folder" ELSE "icon"
                     ELSE Raise(out) /\ UNCHANGED <<files, saved>>
    /\ UNCHANGED <<resizer, listing>>
    /\ UNCHANGED <<py, args, original, dirs, nomake>>

(* one iteration of BaseResizer.resize_folder, or the one call of         *)
(* resize_image for a single file                                         *)
Resize ==
    /\ pc = "resize"
    /\ listing # <<>>
    /\ listing' = Tail(listing)
    /\ LET file_name == Head(listing)
           file_extension == splitext(file_name)[2]
           file_path == join(frame.dir, file_name)
           width  == int(frame.todo[1])
           height == int(frame.todo[2])
           out == log(stdout, resizer, "Resizing file: ", file_name)
       IN IF can_process_file(file_extension)
          THEN /\ opened' = opened \cup {file_path}
               /\ IF Decodes(file_path) /\ width > 0 /\ height > 0
                     /\ Writable(file_path)
                  THEN /\ files' = Written(file_path, [w |-> width, h |-> height])
                       /\ saved' = Append(saved, SaveRecord(file_path, "resize", file_path,
                                                            [w |-> width, h |-> height]))
                       /\ stdout' = out
                       /\ UNCHANGED <<pc, frame>>
                  ELSE Raise(out) /\ UNCHANGED <<files, saved>>
          ELSE UNCHANGED <<pc, frame, opened, files, saved, stdout>>
    /\ UNCHANGED <<resizer>>
    /\ UNCHANGED <<py, args, original, dirs, nomake>>

(* one iteration of BaseResizer.png_convert_folder, or the one call of    *)
(* png_convert_image for a single file                                    *)
PngConvert ==
    /\ pc = "png"
    /\ listing # <<>>
    /\ listing' = Tail(listing)
    /\ LET file_name == Head(listing)
           base_name == splitext(file_name)[1]
           file_extension == splitext(file_name)[2]
           file_path == join(frame.dir, file_name)
           save_file_path == join(frame.dir, base_name \o <<".", "p", "n", "g">>)
           out == log(stdout, resizer, "Converting file: ", file_name)
       IN IF can_process_file(file_extension)
          THEN /\ opened' = opened \cup {file_path}
               /\ IF Decodes(file_path) /\ Writable(save_file_path)
                  THEN /\ files' = Written(save_file_path, files[Resolve(file_path)])
                       /\ saved' = Append(saved, SaveRecord(file_path, "png", save_file_path,
                                                            files[Resolve(file_path)]))
                       /\ stdout' = out
                       /\ UNCHANGED <<pc, frame>>
                  ELSE Raise(out) /\ UNCHANGED <<files, saved>>
          ELSE UNCHANGED <<pc, frame, opened, files, saved, stdout>>
    /\ UNCHANGED <<resizer>>
    /\ UNCHANGED <<py, args, original, dirs, nomake>>

(* a loop has visited every file: the function returns and the script     *)
(* ends (exit() after "Done." in the two BaseResizer modes)               *)
Return ==
    /\ pc \in {"folder", "resize", "png"}
    /\ listing = <<>>
    /\ pc' = "done"
    /\ stdout' = IF pc = "folder" THEN stdout ELSE log(stdout, resizer, "Done.", <<>>)
    /\ UNCHANGED <<resizer, listing, frame, opened, saved>>
    /\ Unchanged_fs

-----------------------------------------------------------------------------
(* The texts the runs below are started with                               *)

D_in == <<"i", "n">>

D_xxxhdpi == <<"r", "e", "s", "/", "d", "r", "a", "w", "a", "b", "l", "e", "-", "x", "x", "x", "h", "d", "p", "i">>

D_xhdpi == <<"r", "e", "s", "/", "d", "r", "a", "w", "a", "b", "l", "e", "-", "x", "h", "d", "p", "i">>

D_mdpi == <<"r", "e", "s", "/", "d", "r", "a", "w", "a", "b", "l", "e", "-", "m", "d", "p", "i">>

D_empty == <<>>

D_dot == <<".">>

D_assets == <<"a", "s", "s", "e", "t", "s">>

D_abs == <<"/", "i", "o", "s">>

D_abs3x == <<"/", "i", "o", "s", "/", "p", "@", "3", "x">>

N_icon == <<"i", "c", "o", "n", ".", "p", "n", "g">>

N_icon3x == <<"i", "c", "o", "n", "@", "3", "x", ".", "p", "n", "g">>

N_twice == <<"a", "@", "3", "x", "@", "3", "x", ".", "p", "n", "g">>

N_logo == <<"l", "o", "g", "o", ".", "p", "n", "g">>

N_photo == <<"p", "h", "o", "t", "o", ".", "j", "p", "g">>

N_bad == <<"b", "a", "d", ".", "p", "n", "g">>

N_button == <<"b", "u", "t", "t", "o", "n", ".", "9", ".", "p", "n", "g">>

N_nested == <<"@", "3", "@", "3", "x", "x", ".", "p", "n", "g">>

N_over == <<"@", "3", "x", "@", "2", "x", ".", "p", "n", "g">>

N_notes == <<"n", "o", "t", "e", "s", ".", "t", "x", "t">>

X_3x2 == <<"3", "x", "2">>

-----------------------------------------------------------------------------
(* Initial states: the invocations and file systems the runs start from    *)

MaxDim == 6

MaxFiles == 2

NoArgs ==
    [show_version |-> FALSE, png_convert |-> FALSE, resize_dimension |-> None,
     platform_ios |-> FALSE, platform_android |-> FALSE, app_icon |-> FALSE,
     silence |-> FALSE, scale |-> None, folder_path |-> None, file_path |-> None]

Img(w, h) == [w |-> w, h |-> h]

(* the files of directory d: content maps a name to its image *)
FilesIn(d, content) ==
    [q \in {Append(Resolve(d), n) : n \in DOMAIN content} |-> content[q[Len(q)]]]

(* the directories on the way to d, the working directory among them *)
DirsTo(d) == Ancestors(Resolve(d))

(* the maps of at least one and at most MaxFiles names of pool to the     *)
(* image pool gives the name                                              *)
Contents(pool) ==
    {[n \in S |-> pool[n]] :
        S \in {T \in SUBSET DOMAIN pool : T # {} /\ Cardinality(T) <= MaxFiles}}

(* what --file or --folder can name for a directory and its content *)
Targets(d, content) ==
    {[folder_path |-> d, file_path |-> None]}
        \cup {[folder_path |-> None, file_path |-> join(d, n)] : n \in DOMAIN content}

Started ==
    /\ pc = "start"
    /\ resizer = NoResizer
    /\ listing = <<>>
    /\ frame = NoFrame
    /\ opened = {}
    /\ saved = <<>>
    /\ stdout = <<>>
    /\ original = files

(* any combination of the command line's flags, on one small folder *)
InitCLI ==
    /\ py \in {2, 3}
    /\ dirs = DirsTo(D_in)
    /\ files = FilesIn(D_in, (N_icon3x :> Img(6, 4)) @@ (N_button :> Img(8, 8))
                             @@ (N_notes :> Corrupt))
    /\ nomake = {}
    /\ \E flags \in [show_version : BOOLEAN, png_convert : BOOLEAN,
                     resize_dimension : {None, X_3x2},
                     platform_ios : BOOLEAN, platform_android : BOOLEAN,
                     app_icon : BOOLEAN, silence : BOOLEAN,
                     scale : {None, <<"xhdpi">>}],
          target \in {[folder_path |-> None, file_path |-> None],
                      [folder_path |-> D_in, file_path |-> None],
                      [folder_path |-> None, file_path |-> join(D_in, N_icon3x)],
                      [folder_path |-> None, file_path |-> join(D_in, N_button)],
                      [folder_path |-> D_in, file_path |-> join(D_in, N_icon3x)]} :
          args = flags @@ target
    /\ Started

(* one file of every small size, and of the sizes the documentation names, *)
(* scaled for either platform under either interpreter                     *)
Sizes ==
    {Img(w, h) : w \in 1..MaxDim, h \in 1..MaxDim}
        \cup {Img(100, 100), Img(192, 192), Img(300, 300)}

InitSizes ==
    /\ py \in {2, 3}
    /\ nomake = {}
    /\ \E size \in Sizes :
          \/ /\ dirs = DirsTo(D_xxxhdpi)
             /\ files = FilesIn(D_xxxhdpi, N_icon :> size)
             /\ args = [NoArgs EXCEPT !.platform_android = TRUE,
                                      !.file_path = join(D_xxxhdpi, N_icon)]
          \/ /\ dirs = DirsTo(D_abs)
             /\ files = FilesIn(D_abs, N_icon3x :> size)
             /\ args = [NoArgs EXCEPT !.platform_ios = TRUE,
                                      !.file_path = join(D_abs, N_icon3x)]
    /\ Started

(* an Android run on one file, in a folder that is or is not one of the   *)
(* folders the run writes to, with or without an excluded scale           *)
InitAndroidDirs ==
    /\ py \in {2, 3}
    /\ nomake = {}
    /\ \E d \in {D_xxxhdpi, D_xhdpi, D_mdpi}, size \in {Img(192, 192), Img(16, 8)},
          exclude \in {None, <<"xhdpi">>} :
          /\ dirs = DirsTo(d)
          /\ files = FilesIn(d, N_icon :> size)
          /\ \E target \in Targets(d, N_icon :> size) :
                args = [NoArgs EXCEPT !.platform_android = TRUE,
                                      !.scale = exclude,
                                      !.folder_path = target.folder_path,
                                      !.file_path = target.file_path]
    /\ Started

(* an Android run on a folder that may hold an undecodable file, with     *)
(* output folders that exist or cannot be made                            *)
AndroidPool ==
    (N_icon :> Img(192, 192)) @@ (N_photo :> Img(16, 8)) @@ (N_bad :> Corrupt)
        @@ (N_button :> Img(8, 8))

OutDir(label) == Resolve(join(D_xxxhdpi, <<".", ".", "/", "d", "r", "a", "w", "a", "b", "l", "e", "-">>
                                          \o Text(label) \o <<"/">>))

InitAndroidFolder ==
    /\ py = 3
    /\ \E content \in Contents(AndroidPool), silence \in BOOLEAN,
          refused \in {{}, {"xhdpi"}, {"mdpi"}},
          made \in {{}, DOMAIN AndroidSCALES} :
          /\ dirs = DirsTo(D_xxxhdpi) \cup {OutDir(l) : l \in made \ refused}
          /\ files = FilesIn(D_xxxhdpi, content)
          /\ nomake = {OutDir(l) : l \in refused}
          /\ args = [NoArgs EXCEPT !.platform_android = TRUE,
                                   !.silence = silence,
                                   !.folder_path = D_xxxhdpi]
    /\ Started

(* an iOS run on a file or a folder, named by a relative or an absolute   *)
(* path, with or without --app-icon                                       *)
IOSPool ==
    (N_icon3x :> Img(300, 300)) @@ (N_twice :> Img(30, 60)) @@ (N_logo :> Img(512, 512))
        @@ (N_nested :> Img(90, 90)) @@ (N_over :> Img(60, 60))

InitIOS ==
    /\ py = 3
    /\ nomake = {}
    /\ \E d \in {D_empty, D_dot, D_assets, D_abs, D_abs3x},
          content \in Contents(IOSPool), app_icon \in BOOLEAN,
          more \in {{}, {Resolve(join(D_assets, D_assets)), Resolve(<<"/", "i", "o", "s", "/", "p">>)}} :
          /\ dirs = DirsTo(d) \cup more
          /\ files = FilesIn(d, content)
          /\ \E target \in Targets(d, content) :
                args = [NoArgs EXCEPT !.platform_ios = TRUE,
                                      !.app_icon = app_icon,
                                      !.folder_path = target.folder_path,
                                      !.file_path = target.file_path]
    /\ Started

Init == InitCLI \/ InitSizes \/ InitAndroidDirs \/ InitAndroidFolder \/ InitIOS

Next ==
    \/ ProcessArguments
    \/ FolderNext
    \/ AndroidScale
    \/ IOSScale
    \/ AppIcon
    \/ Resize
    \/ PngConvert
    \/ Return

Spec == Init /\ [][Next]_vars

-----------------------------------------------------------------------------
(* What the properties below speak of                                      *)

Range(q) == {q[i] : i \in DOMAIN q}

(* the directory the run was pointed at *)
InputDirectory ==
    IF args.show_version = FALSE /\ args.folder_path # None
       /\ (args.png_convert \/ args.resize_dimension # None => args.file_path = None)
    THEN args.folder_path
    ELSE IF args.file_path # None THEN split(args.file_path)[1] ELSE <<>>

(* a run of AndroidResResize or IOSResResize, and its scope *)
PlatformRun == resizer.cls \in {"Android", "IOS"}

FolderScope == args.folder_path # None

(* the names the folder (or the one file) of the run held at the start *)
SourceNames ==
    IF PlatformRun /\ FolderScope
    THEN {q[Len(q)] : q \in {e \in DOMAIN original : Parent(e) = Resolve(args.folder_path)}}
    ELSE IF args.file_path # None THEN {split(args.file_path)[2]} ELSE {}

(* the save calls made for source file src *)
SavesOf(src) == {i \in DOMAIN saved : saved[i].src = src}

LabelsOf(src) == {saved[i].label : i \in SavesOf(src)}

(* the run is over: the script ended or died of an exception *)
Ended == pc \in {"done", "raised"}

(* the path AndroidResResize is documented to write label's derivative to *)
DrawablePath(input_directory, label, file_name) ==
    input_directory \o <<"/", ".", ".", "/", "d", "r", "a", "w", "a", "b", "l", "e", "-">>
        \o Text(label) \o <<"/">> \o file_name

-----------------------------------------------------------------------------
(* C1: in a platform run started with exclusion set E, a derivative is     *)
(* written for label L if and only if L is in the scale table and L is not *)
(* in E: no save call of the run carries an excluded label, and a run that *)
(* ended normally has saved every other label of the table for each        *)
(* eligible file.                                                          *)
C1_ExcludedScalesSkipped ==
    /\ PlatformRun /\ resizer.EXCLUDE_SCALE # None =>
          \A i \in DOMAIN saved : saved[i].label \notin Range(resizer.EXCLUDE_SCALE)
    /\ resizer.cls = "Android" /\ nomake = {} /\ pc = "done" =>
          \A n \in SourceNames :
              /\ can_process_file(splitext(n)[2])
              /\ FolderScope => lastN(n, 6) \notin UNACCEPTED_EXTENSIONS
              => LET E == IF resizer.EXCLUDE_SCALE = None THEN {}
                          ELSE Range(resizer.EXCLUDE_SCALE)
                 IN LabelsOf(join(InputDirectory, n)) = DOMAIN AndroidSCALES \ E

-----------------------------------------------------------------------------
(* C2: in folder scope, an undecodable file does not keep any other        *)
(* eligible file of the folder from getting all of its derivatives before  *)
(* the run ends.                                                           *)
C2_DecodeFailureIsolated ==
    resizer.cls = "Android" /\ FolderScope /\ nomake = {} /\ Ended =>
        \A n \in SourceNames :
            /\ can_process_file(splitext(n)[2])
            /\ lastN(n, 6) \notin UNACCEPTED_EXTENSIONS
            /\ Decodes(join(args.folder_path, n))
            => LabelsOf(join(args.folder_path, n)) = DOMAIN AndroidSCALES

-----------------------------------------------------------------------------
(* C3: the target dimension scale_image computes from source dimension d   *)
(* and table factor f is max(1, round(d*f)) with halves rounded away from  *)
(* zero, for the width and for the height.                                 *)
RoundHalfAway(d, scale) ==
    LET q == (2 * d * scale.num + scale.den) \div (2 * scale.den)
    IN IF q < 1 THEN 1 ELSE q

(* C3: every scale-table derivative has the half-away-from-zero size *)
C3_RoundHalfAwayFromZero ==
    PlatformRun =>
        \A i \in DOMAIN saved :
            /\ saved[i].label \in DOMAIN SCALES(resizer.cls)
            /\ \A j \in DOMAIN saved : Resolve(saved[j].path) # Resolve(saved[i].src)
            => LET size  == original[Resolve(saved[i].src)]
                   scale == SCALES(resizer.cls)[saved[i].label]
               IN /\ saved[i].w = RoundHalfAway(size.w, scale)
                  /\ saved[i].h = RoundHalfAway(size.h, scale)

-----------------------------------------------------------------------------
(* C4: the eligibility gate.  The suffix and the extensions are written    *)
(* out here as the documentation gives them.                               *)
NinePatchSuffix == <<".", "9", ".", "p", "n", "g">>

DocumentedExtensions == {<<".", "p", "n", "g">>, <<".", "j", "p", "g">>}

(* a save call that resizes: png conversion re-encodes at the same size *)
Resizes(i) == saved[i].label # "png"

(* C4 as claimed: in every mode a file is resized only if its extension is *)
(* .png or .jpg and its name does not end in .9.png.                       *)
C4_NinePatchNeverResized ==
    \A i \in DOMAIN saved :
        Resizes(i) =>
            /\ splitext(saved[i].src)[2] \in DocumentedExtensions
            /\ lastN(saved[i].src, 6) # NinePatchSuffix

(* C4 as amended: in every mode a file is resized only if its extension is *)
(* .png or .jpg; a platform folder batch moreover never selects a file     *)
(* whose name ends in .9.png.                                              *)
C4_EligibilityGate ==
    \A i \in DOMAIN saved :
        Resizes(i) =>
            /\ splitext(saved[i].src)[2] \in DocumentedExtensions
            /\ PlatformRun /\ FolderScope => lastN(saved[i].src, 6) # NinePatchSuffix

(* a platform folder batch over a folder holding button.9.png has ended    *)
(* and has written derivatives of another file                             *)
C4_Witness ==
    /\ PlatformRun /\ FolderScope /\ pc = "done"
    /\ N_button \in SourceNames
    /\ saved # <<>>

-----------------------------------------------------------------------------
(* C5: IOSResResize.process_file on <stem>@3x<ext> writes exactly          *)
(* <stem>@2x<ext> and <stem>@1x<ext>, both directly inside the input       *)
(* directory, the stem being the base name less its first "@3x"; a         *)
(* 300x300 icon@3x.png gives 200x200 and 100x100.                          *)
RECURSIVE replaceFirst(_, _, _)
replaceFirst(t, old, new) ==
    IF Len(t) < Len(old) THEN t
    ELSE IF SubSeq(t, 1, Len(old)) = old
         THEN new \o SubSeq(t, Len(old) + 1, Len(t))
         ELSE <<Head(t)>> \o replaceFirst(Tail(t), old, new)

(* C5: a single-file iOS run on a decodable <stem>@3x<ext> ends with the   *)
(* two derivatives, beside the source                                      *)
C5_IOSDerivativesBesideSource ==
    /\ resizer.cls = "IOS" /\ ~args.app_icon /\ ~FolderScope /\ Ended
    /\ args.file_path # None
    =>
    LET input_directory == split(args.file_path)[1]
        file_name == split(args.file_path)[2]
        stem == replaceFirst(splitext(file_name)[1], <<"@", "3", "x">>, <<>>)
        ext  == splitext(file_name)[2]
        at(label) == Append(Resolve(input_directory), stem \o Text(label) \o ext)
    IN /\ ext \in DocumentedExtensions
       /\ contains(file_name, <<"@", "3", "x">>)
       /\ Resolve(args.file_path) \in DOMAIN original
       /\ original[Resolve(args.file_path)] # Corrupt
       => /\ Len(saved) = 2
          /\ {Resolve(saved[i].path) : i \in DOMAIN saved} = {at("@2x"), at("@1x")}
          /\ \A i \in DOMAIN saved :
                /\ Resolve(saved[i].path) = at(saved[i].label)
                /\ original[Resolve(args.file_path)] = Img(300, 300)
                   => saved[i].w = (IF saved[i].label = "@2x" THEN 200 ELSE 100)
                      /\ saved[i].h = saved[i].w

-----------------------------------------------------------------------------
(* C6: in an iOS run a file with an accepted extension is processed if and *)
(* only if its file name contains "@3x" or app-icon mode was requested;    *)
(* requested for a file without "@3x", app-icon mode yields the ten square *)
(* icons <base-name>-<size>x<size><ext> in the input directory, and        *)
(* without it such a file yields nothing.                                  *)
IconSizes == {29, 40, 58, 76, 80, 87, 120, 152, 167, 180}

(* C6: the gate, and the ten icons of app-icon mode *)
C6_IOSGate ==
    resizer.cls = "IOS" =>
        \A n \in SourceNames :
            LET path == join(InputDirectory, n)
                has3x == contains(n, <<"@", "3", "x">>)
                icon(z) == Append(Resolve(InputDirectory),
                                  splitext(n)[1] \o <<"-">> \o Digits(z) \o <<"x">>
                                      \o Digits(z) \o splitext(n)[2])
            IN splitext(n)[2] \in DocumentedExtensions /\ Decodes(path) =>
                  /\ path \in opened => has3x \/ args.app_icon
                  /\ ~has3x /\ ~args.app_icon => SavesOf(path) = {}
                  /\ pc = "done" /\ (has3x \/ args.app_icon) => path \in opened
                  /\ pc = "done" /\ ~has3x /\ args.app_icon =>
                        /\ Cardinality(SavesOf(path)) = 10
                        /\ {Resolve(saved[i].path) : i \in SavesOf(path)}
                               = {icon(z) : z \in IconSizes}
                        /\ \A i \in SavesOf(path) :
                              \E z \in IconSizes :
                                 /\ Resolve(saved[i].path) = icon(z)
                                 /\ saved[i].w = z /\ saved[i].h = z

-----------------------------------------------------------------------------
(* C7: AndroidResResize.process_file on an eligible file, with no          *)
(* exclusions and no file system failure, writes exactly four derivatives, *)
(* one per label, at inputDirectory/../drawable-<label>/<file name>, each  *)
(* axis scaled on its own by 0.75, 0.5, 0.375 and 0.25; 192x192 gives      *)
(* 144x144, 96x96, 72x72 and 48x48.                                        *)
DocumentedFactors ==
    [xxhdpi |-> <<3, 4>>, xhdpi |-> <<1, 2>>, hdpi |-> <<3, 8>>, mdpi |-> <<1, 4>>]

Of192 == [xxhdpi |-> 144, xhdpi |-> 96, hdpi |-> 72, mdpi |-> 48]

Abs(x) == IF x < 0 THEN -x ELSE x

(* t is d*num/den rounded to a nearest integer, and 1 when that is 0 *)
IsScaled(t, d, f) ==
    /\ t >= 1
    /\ \/ 2 * Abs(t * f[2] - d * f[1]) <= f[2]
       \/ t = 1 /\ 2 * d * f[1] <= f[2]

(* the run selects file name n: its extension is accepted and, in a folder *)
(* batch, it is no NinePatch file                                          *)
Eligible(n) ==
    /\ splitext(n)[2] \in DocumentedExtensions
    /\ FolderScope => lastN(n, 6) # NinePatchSuffix

WasDecodable(path) ==
    Resolve(path) \in DOMAIN original /\ original[Resolve(path)] # Corrupt

(* the input directory is itself one of the folders the run writes to *)
Aliased ==
    \E l \in DOMAIN AndroidSCALES :
        Resolve(InputDirectory) = Parent(Resolve(DrawablePath(InputDirectory, l, N_icon)))

FourDerivatives(n) ==
    LET src == join(InputDirectory, n)
    IN /\ Cardinality(SavesOf(src)) = 4
       /\ LabelsOf(src) = {"xxhdpi", "xhdpi", "hdpi", "mdpi"}
       /\ \A i \in SavesOf(src) :
             /\ Resolve(saved[i].path)
                    = Resolve(DrawablePath(InputDirectory, saved[i].label, n))
             /\ IsScaled(saved[i].w, original[Resolve(src)].w,
                         DocumentedFactors[saved[i].label])
             /\ IsScaled(saved[i].h, original[Resolve(src)].h,
                         DocumentedFactors[saved[i].label])
             /\ original[Resolve(src)] = Img(192, 192) =>
                   saved[i].w = Of192[saved[i].label] /\ saved[i].h = Of192[saved[i].label]

(* C7 as claimed *)
C7_AndroidFourDerivatives ==
    resizer.cls = "Android" /\ resizer.EXCLUDE_SCALE = None /\ nomake = {} /\ pc = "done" =>
        \A n \in SourceNames :
            Eligible(n) /\ WasDecodable(join(InputDirectory, n)) => FourDerivatives(n)

(* C7 as amended: the same, for an input directory that is not itself one  *)
(* of the four drawable-<label> directories the run writes to.             *)
C7_AndroidFourDerivativesElsewhere ==
    resizer.cls = "Android" /\ resizer.EXCLUDE_SCALE = None /\ nomake = {} /\ pc = "done"
    /\ ~Aliased =>
        \A n \in SourceNames :
            Eligible(n) /\ WasDecodable(join(InputDirectory, n)) => FourDerivatives(n)

(* an Android run on a 192x192 file has ended with its four derivatives *)
C7_Witness ==
    /\ resizer.cls = "Android" /\ resizer.EXCLUDE_SCALE = None /\ pc = "done" /\ ~Aliased
    /\ \E n \in SourceNames :
          /\ Eligible(n)
          /\ WasDecodable(join(InputDirectory, n))
          /\ original[Resolve(join(InputDirectory, n))] = Img(192, 192)
          /\ Cardinality(SavesOf(join(InputDirectory, n))) = 4

-----------------------------------------------------------------------------
(* C8: process_arguments runs at most one mode, by the priority version >  *)
(* PNG conversion > exact-dimension resize > platform: with the version    *)
(* flag no file is read or written; with PNG conversion nothing is resized *)
(* and no platform derivative is written; with a resize dimension no       *)
(* platform derivative is written.                                         *)
C8_OneModeByPriority ==
    /\ args.show_version =>
          opened = {} /\ saved = <<>> /\ files = original
    /\ ~args.show_version /\ args.png_convert =>
          \A i \in DOMAIN saved : saved[i].label = "png"
    /\ ~args.show_version /\ ~args.png_convert /\ args.resize_dimension # None =>
          \A i \in DOMAIN saved : saved[i].label = "resize"
    /\ ~args.show_version /\ ~args.png_convert /\ args.resize_dimension = None =>
          \A i \in DOMAIN saved : saved[i].label \notin {"png", "resize"}

(* a run given --pngconv, --resize and a platform at once has ended, and   *)
(* has written a file                                                      *)
C8_Witness ==
    /\ ~args.show_version /\ args.png_convert /\ args.resize_dimension # None
    /\ args.platform_android
    /\ pc = "done"
    /\ saved # <<>>

-----------------------------------------------------------------------------
(* C9: when making the output directory of a label fails in                *)
(* AndroidResResize.process_file, the failure is printed with the path     *)
(* tried, silenced or not; nothing is written for that label or a later    *)
(* one for that file; what was written for earlier labels stays; a folder  *)
(* run goes on with the next file.  An output directory that exists is     *)
(* used as it is.                                                          *)
OutputDirectory(label) ==
    join(InputDirectory, <<".", ".", "/", "d", "r", "a", "w", "a", "b", "l", "e", "-">>
                             \o Text(label) \o <<"/">>)

(* os.makedirs is refused for label's output directory *)
Refused(label) ==
    \E a \in Ancestors(Resolve(OutputDirectory(label))) : a \in nomake /\ a \notin dirs

(* the labels process_file reaches before the first refused one *)
Reached ==
    {resizer.order[k] : k \in {m \in DOMAIN resizer.order :
                                  \A j \in 1..m : ~Refused(resizer.order[j])}}

FirstRefused ==
    {resizer.order[k] : k \in {m \in DOMAIN resizer.order :
                                  /\ Refused(resizer.order[m])
                                  /\ \A j \in 1..(m - 1) : ~Refused(resizer.order[j])}}

Failures ==
    {k \in DOMAIN stdout : stdout[k].text = "Could not create output directory: "}

EligibleNames == {n \in SourceNames : Eligible(n)}

(* C9: a run never dies of a refused directory; each failure line names    *)
(* the directory of the first refused label; only labels reached before it *)
(* are written, and stay written; a run that ended has given every         *)
(* eligible file exactly those labels and printed one line per file        *)
C9_DirectoryFailureSkipsRestOfFile ==
    resizer.cls = "Android" /\ ~(args.app_icon /\ ~FolderScope) =>
        /\ pc = "raised" => \E n \in EligibleNames : ~WasDecodable(join(InputDirectory, n))
        /\ \A k \in Failures :
              \E l \in FirstRefused : stdout[k].arg = OutputDirectory(l)
        /\ \A i \in DOMAIN saved :
              /\ saved[i].label \in Reached
              /\ files[Resolve(saved[i].path)] = Img(saved[i].w, saved[i].h)
        /\ pc = "done" =>
              /\ \A n \in EligibleNames : LabelsOf(join(InputDirectory, n)) = Reached
              /\ Cardinality(Failures)
                    = (IF FirstRefused = {} THEN 0 ELSE Cardinality(EligibleNames))

(* a silenced folder run over two eligible files has ended; a directory    *)
(* could not be made, after a derivative of an earlier label was written   *)
C9_Witness ==
    /\ resizer.cls = "Android" /\ FolderScope /\ args.silence /\ pc = "done"
    /\ Cardinality(EligibleNames) = 2
    /\ FirstRefused # {}
    /\ Cardinality(Failures) = 2
    /\ \A n \in EligibleNames : SavesOf(join(InputDirectory, n)) # {}

-----------------------------------------------------------------------------
(* C10: in scale-table mode, whatever the input directory and the order    *)
(* the table is iterated in, every derivative has the size computed from   *)
(* the size its source had when the run started, is written to a path that *)
(* is not the source's and not another derivative's, and the source is     *)
(* left as it was.                                                         *)
ScaleTableRun == PlatformRun /\ resizer.app_icon = FALSE

Independent(i) ==
    LET src  == Resolve(saved[i].src)
        size == original[src]
        scale == SCALES(resizer.cls)[saved[i].label]
    IN /\ saved[i].w = new_dimension(size.w, scale, py)
       /\ saved[i].h = new_dimension(size.h, scale, py)
       /\ Resolve(saved[i].path) # src
       /\ \A j \in SavesOf(saved[i].src) :
             j # i => Resolve(saved[j].path) # Resolve(saved[i].path)
       /\ files[src] = size

(* C10 as claimed *)
C10_OrderIndependent ==
    ScaleTableRun => \A i \in DOMAIN saved : Independent(i)

(* no derivative lands on a source file of the run: for Android, the input *)
(* directory is not itself one of the drawable-<label> directories         *)
NoDerivativeOnSource ==
    IF resizer.cls = "Android" THEN ~Aliased
    ELSE \A i \in DOMAIN saved : Resolve(saved[i].path) \notin DOMAIN original

(* C10 as amended: the same, provided no derivative of the run is written  *)
(* to the path of one of the run's source files.                           *)
C10_OrderIndependentUnlessOverwritten ==
    ScaleTableRun /\ NoDerivativeOnSource => \A i \in DOMAIN saved : Independent(i)

(* an Android run that iterated the table from mdpi up has ended with its  *)
(* four derivatives of a 16x8 source                                       *)
C10_Witness ==
    /\ resizer.cls = "Android" /\ ~Aliased /\ pc = "done"
    /\ resizer.order = <<"mdpi", "hdpi", "xhdpi", "xxhdpi">>
    /\ Len(saved) = 4
    /\ original[Resolve(saved[1].src)] = Img(16, 8)

====
